---- MODULE Spec2Model ----
(***************************************************************************)
(* Model of the Orbit import pod (OrbitImportPod, OrbitUtils): paginated   *)
(* fetch of members, planning into create / update / conflict buckets,     *)
(* concurrent non-conflicting updates, batch create and the sequential     *)
(* conflict resolver.                                                      *)
(*                                                                         *)
(* JavaScript values are tagged records: k is the type tag and s the       *)
(* string's content as a sequence of tokens ("." "@" " " are tokens of     *)
(* their own, every other token stands for a run of ordinary characters).  *)
(***************************************************************************)
EXTENDS Integers, Sequences, FiniteSets, TLC

\* ------------------------------------------------------------------ bounds
MaxPages == 2        \* pages of the remote's member listing
MaxMembers == 2      \* records of the remote's member listing
MaxPerPage == 2      \* records in one page of a listing of several pages

\* ------------------------------------------------------------ JS values
Undef == [k |-> "undefined", s |-> <<>>]
Null == [k |-> "null", s |-> <<>>]
Str(toks) == [k |-> "string", s |-> toks]

\* JavaScript truthiness of a string | null | undefined value
Truthy(v) == v.k = "string" /\ v.s # <<>>

\* a || b
OrElse(a, b) == IF Truthy(a) THEN a ELSE b

\* _.isNull / _.isUndefined
isNull(v) == v.k = "null"
isUndefined(v) == v.k = "undefined"

\* enum SocialKeys, in declaration order (Object.values order)
SocialKeys == <<"github", "discord", "linkedin", "twitter", "email">>
SocialKeySet == {SocialKeys[i] : i \in 1..Len(SocialKeys)}

\* enum MergeConflictOptions
OVERWRITE_LOCAL == "OVERWRITE_LOCAL"
SKIP == "SKIP"
SKIP_ALL == "SKIP_ALL"

\* ---------------------------------------------------------- OrbitUtils
\* email.split("@")[0]
SplitAtFirst(toks) ==
  LET ats == {i \in 1..Len(toks) : toks[i] = "@"}
      first == IF ats = {} THEN Len(toks) + 1
               ELSE CHOOSE i \in ats : \A j \in ats : i <= j
  IN SubSeq(toks, 1, first - 1)

getNameFromEmail(email) ==
  IF Truthy(email) THEN Str(SplitAtFirst(email.s)) ELSE Undef

getSocialAttributes(member) ==
  [key \in SocialKeySet |-> member.attributes[key]]

\* DNodeUtils.cleanFname: the filename sanitiser; a disallowed token is
\* replaced by a dash
Disallowed == {" "}
cleanFname(toks) ==
  [i \in 1..Len(toks) |-> IF toks[i] \in Disallowed THEN "-" ELSE toks[i]]

\* cleanName with the email step left out
cleanNameSkipsEmail(member) ==
  LET a == member.attributes
      noteName == OrElse(a.name, OrElse(a.github, OrElse(a.discord,
                    OrElse(a.twitter, member.id))))
  IN cleanFname(noteName.s)

cleanName(member) ==
  LET a == member.attributes
      noteName == OrElse(a.name, OrElse(a.github, OrElse(a.discord,
                    OrElse(a.twitter, OrElse(getNameFromEmail(a.email), member.id)))))
  IN cleanFname(noteName.s)

\* ------------------------------------------------------------- notes
\* custom.has = FALSE: the note has no custom metadata; custom.hasSocial =
\* FALSE: custom has no social bag; a key missing from the bag reads Undef
NoSocialBag == [key \in SocialKeySet |-> Undef]
NoCustom == [has |-> FALSE, hasSocial |-> FALSE, social |-> NoSocialBag, orbitId |-> Undef]
Custom(social, orbitId) ==
  [has |-> TRUE, hasSocial |-> TRUE, social |-> social, orbitId |-> orbitId]
CustomNoSocial == [has |-> TRUE, hasSocial |-> FALSE, social |-> NoSocialBag, orbitId |-> Undef]

\* NoteUtils.create({fname, vault, custom, body})
NoteCreate(fname, custom) == [fname |-> fname, custom |-> custom]

\* `people.${noteName}`
PeopleName(noteName) == <<"people", ".">> \o noteName

\* Time.now().toFormat("y.MM.dd"): the day of the run
Today == <<"y", ".", "MM", ".", "dd">>

\* `people.orbit.duplicate.${today}.${noteName}`
DuplicateName(noteName) ==
  <<"people", ".", "orbit", ".", "duplicate", ".">> \o Today \o <<".">> \o noteName

\* ------------------------------------------- OrbitImportPod.getConflictedData
\* getConflictedData with the emptiness test of the existing value lost
getConflictedDataLoose(note, orbitMember) ==
  IF ~note.custom.has \/ ~note.custom.hasSocial THEN <<>>
  ELSE LET Keep(key) == orbitMember.attributes[key] # note.custom.social[key]
       IN SelectSeq(SocialKeys, Keep)

getConflictedData(note, orbitMember) ==
  IF ~note.custom.has \/ ~note.custom.hasSocial THEN <<>>
  ELSE LET Keep(key) ==
             LET noteSocialValue == note.custom.social[key]
             IN /\ ~isNull(noteSocialValue) /\ ~isUndefined(noteSocialValue)
                /\ orbitMember.attributes[key] # note.custom.social[key]
       IN SelectSeq(SocialKeys, Keep)


\* ------------------------------------------- OrbitImportPod.updateNoteData
\* the synchronous part of updateNoteData on one note object: threw is the
\* TypeError of reading .social of an undefined custom; note is the object
\* after the in-place assignments; shouldUpdate decides the writeNote call
\* updateNoteData that writes whether or not a field was adopted
updateNoteDataAlwaysWrites(note, orbitMember) ==
  IF ~note.custom.has
    THEN [threw |-> TRUE, note |-> note, shouldUpdate |-> FALSE]
    ELSE LET social == orbitMember.attributes
             Adopt(key) == isNull(note.custom.social[key]) /\ ~isNull(social[key])
             bag == [key \in SocialKeySet |->
                       IF Adopt(key) THEN social[key] ELSE note.custom.social[key]]
         IN [threw |-> FALSE,
             note |-> [note EXCEPT !.custom.hasSocial = TRUE, !.custom.social = bag],
             shouldUpdate |-> TRUE]

updateNoteDataSync(note, orbitMember) ==
  IF ~note.custom.has
    THEN [threw |-> TRUE, note |-> note, shouldUpdate |-> FALSE]
    ELSE LET social == orbitMember.attributes
             Adopt(key) == isNull(note.custom.social[key]) /\ ~isNull(social[key])
             bag == [key \in SocialKeySet |->
                       IF Adopt(key) THEN social[key] ELSE note.custom.social[key]]
         IN [threw |-> FALSE,
             note |-> [note EXCEPT !.custom.hasSocial = TRUE, !.custom.social = bag],
             shouldUpdate |-> \E key \in SocialKeySet : Adopt(key)]

\* ------------------------------------------- OrbitImportPod.membersToNotes
\* the name under which the existing note is looked up (lines 269-278)
LookupName(cfg, fast, noteName) ==
  LET fname == IF Truthy(cfg.destName) THEN cfg.destName.s ELSE PeopleName(noteName)
  IN IF fast THEN fname ELSE PeopleName(noteName)

\* the name given to a newly created note (line 333)
CreateName(cfg, noteName) == PeopleName(noteName)

\* ConflictEntryName with the reassignment of fname lost
ConflictEntryNameKept(cfg, noteName) ==
  IF Truthy(cfg.destName) THEN cfg.destName.s ELSE PeopleName(noteName)

\* the name given to the synthesized note of a conflict (lines 314-316)
ConflictEntryName(cfg, noteName) == DuplicateName(noteName)

\* PlanMember with the push to notesToUpdate lost
PlanMemberDropsUpdate(acc, member, st, cfg, fast) ==
  LET noteName == cleanName(member)
      orbitData == Custom(getSocialAttributes(member), member.id)
      ref == LookupName(cfg, fast, noteName)
  IN IF ref \in DOMAIN st
       THEN LET note == st[ref]
                conflictData == getConflictedData(note, member)
            IN IF Len(conflictData) > 0
                 THEN [acc EXCEPT !.conflicts = Append(@,
                         [conflictNote |-> note,
                          conflictEntry |-> NoteCreate(ConflictEntryName(cfg, noteName), orbitData),
                          conflictData |-> conflictData,
                          ref |-> ref, noteName |-> noteName])]
                 ELSE acc
       ELSE [acc EXCEPT !.create = Append(@, NoteCreate(CreateName(cfg, noteName), orbitData))]

\* one iteration of members.map: the record goes to one of the three lists;
\* ref (the looked-up name, the identity of the note object found) and
\* noteName are kept with the entry for the record of the run
PlanMember(acc, member, st, cfg, fast) ==
  LET noteName == cleanName(member)
      orbitData == Custom(getSocialAttributes(member), member.id)
      ref == LookupName(cfg, fast, noteName)
  IN IF ref \in DOMAIN st
       THEN LET note == st[ref]
                conflictData == getConflictedData(note, member)
            IN IF Len(conflictData) > 0
                 THEN [acc EXCEPT !.conflicts = Append(@,
                         [conflictNote |-> note,
                          conflictEntry |-> NoteCreate(ConflictEntryName(cfg, noteName), orbitData),
                          conflictData |-> conflictData,
                          ref |-> ref, noteName |-> noteName])]
                 ELSE [acc EXCEPT !.notesToUpdate = Append(@,
                         [note |-> note, member |-> member, ref |-> ref])]
       ELSE [acc EXCEPT !.create = Append(@, NoteCreate(CreateName(cfg, noteName), orbitData))]

RECURSIVE PlanFrom(_, _, _, _, _, _)
PlanFrom(acc, ms, i, st, cfg, fast) ==
  IF i > Len(ms) THEN acc
  ELSE PlanFrom(PlanMember(acc, ms[i], st, cfg, fast), ms, i + 1, st, cfg, fast)

EmptyPlan == [create |-> <<>>, notesToUpdate |-> <<>>, conflicts |-> <<>>]
Plan(ms, st, cfg, fast) == PlanFrom(EmptyPlan, ms, 1, st, cfg, fast)

\* notesToUpdate.map(updateNoteData): the synchronous parts run in list
\* order. Without fastMode a found note is the engine's own object, shared by
\* every entry that looked up the same name (objs holds these objects); with
\* fastMode each lookup read its own object from the file.
RECURSIVE DispatchFrom(_, _, _, _, _)
DispatchFrom(ups, j, objs, out, fast) ==
  IF j > Len(ups) THEN [objs |-> objs, out |-> out]
  ELSE LET e == ups[j]
           cur == IF fast THEN e.note ELSE objs[e.ref]
           r == updateNoteDataSync(cur, e.member)
           status == IF r.threw THEN "threw"
                     ELSE IF r.shouldUpdate THEN "inflight" ELSE "none"
       IN DispatchFrom(ups, j + 1,
                       IF fast THEN objs ELSE [objs EXCEPT ![e.ref] = r.note],
                       Append(out, [status |-> status, note |-> r.note]),
                       fast)

Dispatch(ups, st, fast) == DispatchFrom(ups, 1, st, <<>>, fast)


\* ----------------------------------------------------------- the inputs
Attributes(name, github, email) ==
  [name |-> name, github |-> github, discord |-> Null, linkedin |-> Null,
   twitter |-> Null, email |-> email]
Member(id, name, github, email) ==
  [id |-> Str(<<id>>), attributes |-> Attributes(name, github, email)]

BobEmail == Str(<<"bob", "@", "x">>)
MemberPool ==
  { Member("m1", Str(<<"bob">>), Str(<<"gh2">>), BobEmail),
    Member("m2", Null, Str(<<"al">>), Null),
    Member("m3", Str(<<"bob">>), Str(<<"gh1">>), BobEmail) }

Bag(github, rest) ==
  [key \in SocialKeySet |-> IF key = "github" THEN github ELSE rest]

BobFname == PeopleName(<<"bob">>)
AlFname == PeopleName(<<"al">>)
DestFname == <<"dest">>
DupFname == DuplicateName(<<"bob">>)

\* what the vault may hold under each name before the run
ExistingChoices(fname) ==
  IF fname = BobFname
    THEN { NoteCreate(fname, Custom(Bag(Str(<<"gh1">>), Null), Str(<<"m3">>))),
           NoteCreate(fname, Custom(Bag(Str(<<"gh1">>), Undef), Undef)),
           NoteCreate(fname, Custom(Bag(Null, Null), Undef)),
           NoteCreate(fname, CustomNoSocial),
           NoteCreate(fname, NoCustom) }
  ELSE IF fname = AlFname
    THEN { NoteCreate(fname, Custom(Bag(Str(<<"old">>), Null), Str(<<"m2">>))) }
  ELSE { NoteCreate(fname, Custom(Bag(Str(<<"gh1">>), Null), Undef)) }

VaultNames == {BobFname, AlFname, DestFname, DupFname}
Vaults ==
  UNION { { st \in [dom -> UNION {ExistingChoices(f) : f \in dom}] :
              \A f \in dom : st[f] \in ExistingChoices(f) } :
          dom \in SUBSET VaultNames }

Configs ==
  [destName : {Undef, Str(DestFname)},
   overwriteAll : BOOLEAN,
   orbitId : {Undef, Str(<<"m1">>)}]

\* the next link of the n-th page; the empty string is the first cursor
LinkOf(n) == Str([i \in 1..n |-> "p"])
\* the page a link names
PageOf(link) == Len(link.s) + 1

\* sequences over S of length 0..n
SeqsUpTo(S, n) == UNION {[1..k -> S] : k \in 0..n}

\* the remote's member listing: the records of each page; every page but the
\* last carries the link of the page after it
RECURSIVE TotalRecords(_, _)
TotalRecords(pages, i) ==
  IF i > Len(pages) THEN 0 ELSE Len(pages[i]) + TotalRecords(pages, i + 1)
PagedRemotes ==
  {r \in SeqsUpTo(SeqsUpTo(MemberPool, MaxPerPage), MaxPages) :
     Len(r) >= 1 /\ TotalRecords(r, 1) <= MaxMembers}
SinglePageRemotes == {<<data>> : data \in SeqsUpTo(MemberPool, MaxMembers)}
\* the envelope of the response to a GET of link
ResponseTo(listing, link) ==
  [data |-> listing[PageOf(link)],
   next |-> IF PageOf(link) < Len(listing) THEN LinkOf(PageOf(link)) ELSE Null]
\* the vaults of the runs that exercise the pagination
FetchVaults ==
  { <<>>,
    (BobFname :> NoteCreate(BobFname, Custom(Bag(Str(<<"gh1">>), Null), Str(<<"m3">>))))
      @@ (AlFname :> NoteCreate(AlFname, Custom(Bag(Str(<<"old">>), Null), Str(<<"m2">>)))) }

Causes == {"ECONNRESET"}
\* stringifyError of @dendronhq/common-all
stringifyError(cause) == <<"{", cause, "}">>
NoError == [type |-> "none", severity |-> "none", message |-> <<>>]
\* new DendronError({message, severity: ERROR_SEVERITY.MINOR})
DendronErrorMinor(message) ==
  [type |-> "DendronError", severity |-> "MINOR", message |-> message]
\* an error thrown by a collaborator (axios, the engine, the decision
\* source) or by the runtime, as it reaches the caller un-wrapped
RawError(type, cause) == [type |-> type, severity |-> "none", message |-> <<cause>>]

Decisions == {OVERWRITE_LOCAL, SKIP, SKIP_ALL, "other", "undefined"}

\* ------------------------------------------------------------- the state
VARIABLES
  config,       \* the pod configuration of the run
  fastMode,     \* engine.fastMode
  store0,       \* the document graph as the run found it
  remote,       \* the member listing of the remote
  first,        \* what the run before this one left, when there was one
  store,        \* the document graph: fname -> note
  pc,           \* where plant() stands
  next,         \* getAllMembers: the cursor
  members,      \* the fetched records
  served,       \* the page responses of the remote, in order
  reqs,         \* the links requested, in order
  inflight,     \* fetch requests issued and not yet answered
  create,       \* membersToNotes: notes to create
  notesToUpdate,\* membersToNotes: non-conflicting notes
  conflicts,    \* membersToNotes: the conflict queue
  pending,      \* the writeNote promise of each notesToUpdate entry
  index,        \* onConflict: the index
  conflictResolvedNotes, \* onConflict: the list it returns
  answers,      \* the decisions the decision source returned, in order
  calls,        \* store calls and decision requests issued, in order
  result,       \* importedNotes
  err,          \* the error plant() rejects with
  fnPc,         \* a function applied on its own: "ready", then "done"
  fnArg,        \* its arguments
  fnOut         \* its result

vars == <<config, fastMode, store0, remote, first, store, pc, next, members, served, reqs,
          inflight, create, notesToUpdate, conflicts, pending, index,
          conflictResolvedNotes, answers, calls, result, err, fnPc, fnArg, fnOut>>

fnVars == <<fnPc, fnArg, fnOut>>
fixedVars == <<config, fastMode, store0, remote, first, fnVars>>
fetchVars == <<next, members, served, reqs, inflight>>
planVars == <<create, notesToUpdate, conflicts, pending>>
resolveVars == <<index, conflictResolvedNotes, answers>>

NoFirstRun == [done |-> FALSE, calls |-> <<>>, conflicts |-> <<>>]

\* plant() has not started
Idle ==
  /\ pc = "start"
  /\ next = Str(<<>>)
  /\ members = <<>>
  /\ served = <<>>
  /\ reqs = <<>>
  /\ inflight = 0
  /\ create = <<>>
  /\ notesToUpdate = <<>>
  /\ conflicts = <<>>
  /\ pending = <<>>
  /\ index = 0
  /\ conflictResolvedNotes = <<>>
  /\ answers = <<>>
  /\ calls = <<>>
  /\ result = <<>>
  /\ err = NoError

\* a run over a listing of one page, in any vault
Init ==
  /\ config \in Configs
  /\ fastMode \in BOOLEAN
  /\ store \in Vaults
  /\ store0 = store
  /\ first = NoFirstRun
  /\ remote \in IF isUndefined(config.orbitId) THEN SinglePageRemotes ELSE {<<>>}
  /\ Idle
  /\ fnPc = "idle"
  /\ fnArg = <<>>
  /\ fnOut = <<>>

\* --------------------------------------------------------------- fetching
\* plant, line 530: single-record mode; OrbitUtils.getMember issues its GET
GetSingleMember ==
  /\ pc = "start"
  /\ ~isUndefined(config.orbitId)
  /\ reqs' = Append(reqs, config.orbitId)
  /\ inflight' = inflight + 1
  /\ pc' = "single_wait"
  /\ UNCHANGED <<fixedVars, store, next, members, served, planVars, resolveVars,
                 calls, result, err>>

\* the GET of getMember answers: plant goes on to membersToNotes
GetMemberResponse ==
  /\ pc = "single_wait"
  /\ \E m \in {r \in MemberPool : r.id = config.orbitId} :
       members' = <<m>>
  /\ inflight' = inflight - 1
  /\ pc' = "plan"
  /\ UNCHANGED <<fixedVars, store, next, served, reqs, planVars, resolveVars,
                 calls, result, err>>

\* the GET of getMember fails: nothing catches the error
GetMemberFailure ==
  /\ pc = "single_wait"
  /\ \E cause \in Causes : err' = RawError("AxiosError", cause)
  /\ inflight' = inflight - 1
  /\ pc' = "failed"
  /\ UNCHANGED <<fixedVars, store, next, members, served, reqs, planVars,
                 resolveVars, calls, result>>

\* plant, line 533: getAllMembers starts with next = ""
GetAllMembers ==
  /\ pc = "start"
  /\ isUndefined(config.orbitId)
  /\ next' = Str(<<>>)
  /\ members' = <<>>
  /\ pc' = "loop"
  /\ UNCHANGED <<fixedVars, store, served, reqs, inflight, planVars, resolveVars,
                 calls, result, err>>

\* while (next !== null): getMembersFromOrbit issues the GET of link next
RequestPage ==
  /\ pc = "loop"
  /\ ~isNull(next)
  /\ reqs' = Append(reqs, next)
  /\ inflight' = inflight + 1
  /\ pc' = "page_wait"
  /\ UNCHANGED <<fixedVars, store, next, members, served, planVars, resolveVars,
                 calls, result, err>>

\* the next that getMembersFromOrbit returns for a response (lines 208-214):
\* it is assigned inside the forEach over the records of the page
ReturnedNext(data, linksNext) == IF Len(data) > 0 THEN linksNext ELSE Null

\* the page arrives
PageResponse ==
  /\ pc = "page_wait"
  /\ LET response == ResponseTo(remote, reqs[Len(reqs)])
     IN /\ served' = Append(served, response)
        /\ members' = members \o response.data
        /\ next' = ReturnedNext(response.data, response.next)
  /\ inflight' = inflight - 1
  /\ pc' = "loop"
  /\ UNCHANGED <<fixedVars, store, reqs, planVars, resolveVars, calls, result, err>>

\* PageFailure with the error swallowed: the loop asks again
PageFailureSwallowed ==
  /\ pc = "page_wait"
  /\ inflight' = inflight - 1
  /\ pc' = "loop"
  /\ UNCHANGED <<fixedVars, store, next, members, served, reqs, planVars,
                 resolveVars, calls, result, err>>

\* the GET fails (or the envelope is malformed): the catch of line 215
PageFailure ==
  /\ pc = "page_wait"
  /\ \E cause \in Causes : err' = DendronErrorMinor(stringifyError(cause))
  /\ inflight' = inflight - 1
  /\ pc' = "failed"
  /\ UNCHANGED <<fixedVars, store, next, members, served, reqs, planVars,
                 resolveVars, calls, result>>

\* next === null: getAllMembers returns the records
LoopExit ==
  /\ pc = "loop"
  /\ isNull(next)
  /\ pc' = "plan"
  /\ UNCHANGED <<fixedVars, store, fetchVars, planVars, resolveVars, calls, result, err>>


\* ------------------------------------------------------------ the engine
\* engine.writeNote(note, {updateExisting: true}): the note replaces whatever
\* the graph holds under its name
WriteNote(st, note) == (note.fname :> note) @@ st

\* engine.bulkAddNotes({notes}): the notes are added in list order
RECURSIVE BulkAddNotes(_, _, _)
BulkAddNotes(st, notes, i) ==
  IF i > Len(notes) THEN st
  ELSE BulkAddNotes(WriteNote(st, notes[i]), notes, i + 1)

Call(op, via, at, notes) == [op |-> op, via |-> via, at |-> at, notes |-> notes]

\* ------------------------------------------------------------- planning
\* membersToNotes up to its await: the map over the records, then the
\* synchronous part of every updateNoteData in list order (the writeNote calls
\* are issued here); a TypeError thrown by one of them rejects Promise.all
MembersToNotes ==
  /\ pc = "plan"
  /\ LET p == Plan(members, store, config, fastMode)
         d == Dispatch(p.notesToUpdate, store, fastMode)
         n == Len(p.notesToUpdate)
         threw == \E j \in 1..n : d.out[j].status = "threw"
         Issued(j) == d.out[j].status = "inflight"
         writes == [j \in 1..n |-> Call("writeNote", "update", j, <<d.out[j].note>>)]
     IN /\ create' = p.create
        /\ notesToUpdate' = p.notesToUpdate
        /\ conflicts' = [i \in 1..Len(p.conflicts) |->
                           IF fastMode THEN p.conflicts[i]
                           ELSE [p.conflicts[i] EXCEPT
                                   !.conflictNote = d.objs[p.conflicts[i].ref]]]
        /\ pending' = d.out
        /\ calls' = calls \o SelectSeq(writes, LAMBDA c : Issued(c.at))
        /\ pc' = IF threw THEN "failed" ELSE "updating"
        /\ err' = IF threw THEN RawError("TypeError", "custom is undefined") ELSE err
  /\ UNCHANGED <<fixedVars, store, fetchVars, resolveVars, result>>

\* the writeNote of one non-conflicting update completes
UpdateWriteDone(j) ==
  /\ pc \in {"updating", "failed"}
  /\ j \in 1..Len(pending)
  /\ pending[j].status = "inflight"
  /\ store' = WriteNote(store, pending[j].note)
  /\ pending' = [pending EXCEPT ![j].status = "done"]
  /\ UNCHANGED <<fixedVars, pc, fetchVars, create, notesToUpdate, conflicts,
                 resolveVars, calls, result, err>>

\* the writeNote of one non-conflicting update fails: Promise.all rejects
\* with the first failure, the other writes stay in flight
UpdateWriteFailure(j) ==
  /\ pc \in {"updating", "failed"}
  /\ j \in 1..Len(pending)
  /\ pending[j].status = "inflight"
  /\ pending' = [pending EXCEPT ![j].status = "failed"]
  /\ pc' = "failed"
  /\ \E cause \in Causes :
       err' = IF pc = "updating" THEN RawError("EngineError", cause) ELSE err
  /\ UNCHANGED <<fixedVars, store, fetchVars, create, notesToUpdate, conflicts,
                 resolveVars, calls, result>>

\* BulkAddCall that leaves the call out when there is nothing to create
BulkAddCallSkipsEmpty ==
  /\ pc = "updating"
  /\ \A j \in 1..Len(pending) : pending[j].status \in {"none", "done"}
  /\ conflictResolvedNotes' = [i \in 1..Len(conflicts) |-> conflicts[i].conflictNote]
  /\ calls' = IF create = <<>> THEN calls
              ELSE Append(calls, Call("bulkAddNotes", "create", 0, create))
  /\ pc' = "bulk_wait"
  /\ UNCHANGED <<fixedVars, store, fetchVars, planVars, index, answers, result, err>>

\* BulkAddCall that does not wait for the update writes
BulkAddCallEarly ==
  /\ pc = "updating"
  /\ conflictResolvedNotes' = [i \in 1..Len(conflicts) |-> conflicts[i].conflictNote]
  /\ calls' = Append(calls, Call("bulkAddNotes", "create", 0, create))
  /\ pc' = "bulk_wait"
  /\ UNCHANGED <<fixedVars, store, fetchVars, planVars, index, answers, result, err>>

\* Promise.all resolved: plant goes on (lines 541-549) and calls bulkAddNotes
BulkAddCall ==
  /\ pc = "updating"
  /\ \A j \in 1..Len(pending) : pending[j].status \in {"none", "done"}
  /\ conflictResolvedNotes' = [i \in 1..Len(conflicts) |-> conflicts[i].conflictNote]
  /\ calls' = Append(calls, Call("bulkAddNotes", "create", 0, create))
  /\ pc' = "bulk_wait"
  /\ UNCHANGED <<fixedVars, store, fetchVars, planVars, index, answers, result, err>>

\* bulkAddNotes completes: plant starts onConflict at index 0, or returns
BulkAddDone ==
  /\ pc = "bulk_wait"
  /\ store' = BulkAddNotes(store, create, 1)
  /\ IF Len(conflicts) > 0
       THEN /\ index' = 0
            /\ pc' = "onConflict"
            /\ result' = result
       ELSE /\ index' = index
            /\ pc' = "done"
            /\ result' = create
  /\ UNCHANGED <<fixedVars, fetchVars, planVars, conflictResolvedNotes, answers, calls, err>>

BulkAddFailure ==
  /\ pc = "bulk_wait"
  /\ \E cause \in Causes : err' = RawError("EngineError", cause)
  /\ pc' = "failed"
  /\ UNCHANGED <<fixedVars, store, fetchVars, planVars, resolveVars, calls, result>>

\* ------------------------------------------------------------ onConflict
\* OverwriteLocal with the rename lost
OverwriteLocalNoRename ==
  /\ calls' = Append(calls, Call("writeNote", "overwrite", index,
                                  <<conflicts[index + 1].conflictEntry>>))
  /\ pc' = "overwrite_wait"
  /\ UNCHANGED <<conflicts, index, result>>

\* OverwriteLocal that does not await its writeNote
OverwriteLocalNoWait ==
  LET renamed == [conflicts[index + 1].conflictEntry EXCEPT
                    !.fname = conflicts[index + 1].conflictNote.fname]
  IN /\ conflicts' = [conflicts EXCEPT ![index + 1].conflictEntry = renamed]
     /\ calls' = Append(calls, Call("writeNote", "overwrite", index, <<renamed>>))
     /\ IF index < Len(conflicts) - 1
          THEN index' = index + 1 /\ pc' = "onConflict" /\ result' = result
          ELSE index' = index /\ pc' = "done"
                 /\ result' = create \o conflictResolvedNotes

\* case OVERWRITE_LOCAL up to its await: the rename and the writeNote call
OverwriteLocal ==
  LET renamed == [conflicts[index + 1].conflictEntry EXCEPT
                    !.fname = conflicts[index + 1].conflictNote.fname]
  IN /\ conflicts' = [conflicts EXCEPT ![index + 1].conflictEntry = renamed]
     /\ calls' = Append(calls, Call("writeNote", "overwrite", index, <<renamed>>))
     /\ pc' = "overwrite_wait"
     /\ UNCHANGED <<index, result>>

\* AfterSwitch with SKIP_ALL's assignment to index lost
AfterSwitchKeepsIndex(idx) ==
  IF index < Len(conflicts) - 1
    THEN /\ index' = index + 1
         /\ pc' = "onConflict"
         /\ result' = result
    ELSE /\ index' = index
         /\ pc' = "done"
         /\ result' = create \o conflictResolvedNotes

\* lines 457-469 with the index the switch left: recurse or return
AfterSwitch(idx) ==
  IF idx < Len(conflicts) - 1
    THEN /\ index' = idx + 1
         /\ pc' = "onConflict"
         /\ result' = result
    ELSE /\ index' = idx
         /\ pc' = "done"
         /\ result' = create \o conflictResolvedNotes

\* OnConflict that asks the decision source whatever overwriteAll says
OnConflictAlwaysAsks ==
  /\ pc = "onConflict"
  /\ calls' = Append(calls, Call("handleConflict", "decision", index, <<>>))
  /\ pc' = "decision_wait"
  /\ UNCHANGED <<conflicts, index, result>>
  /\ UNCHANGED <<fixedVars, store, fetchVars, create, notesToUpdate, pending,
                 conflictResolvedNotes, answers, err>>

\* onConflict is entered at index: overwriteAll answers by itself, else the
\* decision source is asked
OnConflict ==
  /\ pc = "onConflict"
  /\ IF config.overwriteAll
       THEN OverwriteLocal
       ELSE /\ calls' = Append(calls, Call("handleConflict", "decision", index, <<>>))
            /\ pc' = "decision_wait"
            /\ UNCHANGED <<conflicts, index, result>>
  /\ UNCHANGED <<fixedVars, store, fetchVars, create, notesToUpdate, pending,
                 conflictResolvedNotes, answers, err>>

\* HandleConflictReturn whose default case overwrites
HandleConflictReturnDefaultOverwrites ==
  /\ pc = "decision_wait"
  /\ \E resp \in Decisions :
       /\ answers' = Append(answers, [at |-> index, resp |-> resp])
       /\ CASE resp = OVERWRITE_LOCAL -> OverwriteLocal
            [] resp = SKIP -> AfterSwitch(index) /\ UNCHANGED <<conflicts, calls>>
            [] resp = SKIP_ALL -> AfterSwitch(Len(conflicts)) /\ UNCHANGED <<conflicts, calls>>
            [] OTHER -> OverwriteLocal
  /\ UNCHANGED <<fixedVars, store, fetchVars, create, notesToUpdate, pending,
                 conflictResolvedNotes, err>>

\* HandleConflictReturn that takes SKIP_ALL for SKIP
HandleConflictReturnSkipAllAsSkip ==
  /\ pc = "decision_wait"
  /\ \E resp \in Decisions :
       /\ answers' = Append(answers, [at |-> index, resp |-> resp])
       /\ CASE resp = OVERWRITE_LOCAL -> OverwriteLocal
            [] resp = SKIP -> AfterSwitch(index) /\ UNCHANGED <<conflicts, calls>>
            [] resp = SKIP_ALL -> AfterSwitch(index) /\ UNCHANGED <<conflicts, calls>>
            [] OTHER -> AfterSwitch(index) /\ UNCHANGED <<conflicts, calls>>
  /\ UNCHANGED <<fixedVars, store, fetchVars, create, notesToUpdate, pending,
                 conflictResolvedNotes, err>>

\* handleConflict returns resp: the switch of lines 440-456
HandleConflictReturn ==
  /\ pc = "decision_wait"
  /\ \E resp \in Decisions :
       /\ answers' = Append(answers, [at |-> index, resp |-> resp])
       /\ CASE resp = OVERWRITE_LOCAL -> OverwriteLocal
            [] resp = SKIP -> AfterSwitch(index) /\ UNCHANGED <<conflicts, calls>>
            [] resp = SKIP_ALL -> AfterSwitch(Len(conflicts)) /\ UNCHANGED <<conflicts, calls>>
            [] OTHER -> AfterSwitch(index) /\ UNCHANGED <<conflicts, calls>>
  /\ UNCHANGED <<fixedVars, store, fetchVars, create, notesToUpdate, pending,
                 conflictResolvedNotes, err>>

HandleConflictFailure ==
  /\ pc = "decision_wait"
  /\ \E cause \in Causes : err' = RawError("DecisionError", cause)
  /\ pc' = "failed"
  /\ UNCHANGED <<fixedVars, store, fetchVars, planVars, resolveVars, calls, result>>

\* the writeNote of an overwrite completes
OverwriteDone ==
  /\ pc = "overwrite_wait"
  /\ store' = WriteNote(store, conflicts[index + 1].conflictEntry)
  /\ AfterSwitch(index)
  /\ UNCHANGED <<fixedVars, fetchVars, planVars, conflictResolvedNotes, answers, calls, err>>

\* OverwriteFailure that puts the graph back as the run found it
OverwriteFailureRollsBack ==
  /\ pc = "overwrite_wait"
  /\ \E cause \in Causes : err' = RawError("EngineError", cause)
  /\ pc' = "failed"
  /\ store' = store0
  /\ UNCHANGED <<fixedVars, fetchVars, planVars, resolveVars, calls, result>>

OverwriteFailure ==
  /\ pc = "overwrite_wait"
  /\ \E cause \in Causes : err' = RawError("EngineError", cause)
  /\ pc' = "failed"
  /\ UNCHANGED <<fixedVars, store, fetchVars, planVars, resolveVars, calls, result>>

Next ==
  \/ GetSingleMember
  \/ GetMemberResponse
  \/ GetMemberFailure
  \/ GetAllMembers
  \/ RequestPage
  \/ PageResponse
  \/ PageFailure
  \/ LoopExit
  \/ MembersToNotes
  \/ \E j \in 1..MaxMembers : UpdateWriteDone(j)
  \/ \E j \in 1..MaxMembers : UpdateWriteFailure(j)
  \/ BulkAddCall
  \/ BulkAddDone
  \/ BulkAddFailure
  \/ OnConflict
  \/ HandleConflictReturn
  \/ HandleConflictFailure
  \/ OverwriteDone
  \/ OverwriteFailure

Spec == Init /\ [][Next]_vars

\* plant() is called again after a run that returned: same configuration,
\* same listing, the graph as the first run left it
Rerun ==
  /\ pc = "done"
  /\ ~first.done
  /\ first' = [done |-> TRUE, calls |-> calls, conflicts |-> conflicts]
  /\ store0' = store
  /\ pc' = "start"
  /\ next' = Str(<<>>)
  /\ members' = <<>>
  /\ served' = <<>>
  /\ reqs' = <<>>
  /\ inflight' = 0
  /\ create' = <<>>
  /\ notesToUpdate' = <<>>
  /\ conflicts' = <<>>
  /\ pending' = <<>>
  /\ index' = 0
  /\ conflictResolvedNotes' = <<>>
  /\ answers' = <<>>
  /\ calls' = <<>>
  /\ result' = <<>>
  /\ err' = NoError
  /\ UNCHANGED <<config, fastMode, remote, store, fnVars>>

NextTwice == Next \/ Rerun

SpecTwice == Init /\ [][NextTwice]_vars

\* a run in which every decision request is answered and every overwrite
\* write completes in the end: the awaits of onConflict are not left pending
SpecLive ==
  /\ Init
  /\ [][Next]_vars
  /\ WF_vars(OnConflict)
  /\ WF_vars(HandleConflictReturn)
  /\ WF_vars(OverwriteDone)

\* a run over a listing of several pages
InitFetch ==
  /\ config \in Configs
  /\ fastMode \in BOOLEAN
  /\ store \in FetchVaults
  /\ store0 = store
  /\ first = NoFirstRun
  /\ remote \in IF isUndefined(config.orbitId) THEN PagedRemotes ELSE {<<>>}
  /\ Idle
  /\ fnPc = "idle"
  /\ fnArg = <<>>
  /\ fnOut = <<>>

SpecFetch == InitFetch /\ [][Next]_vars


\* ------------------------------------- getConflictedData applied on its own
DetectNoteValues == {Undef, Null, Str(<<>>), Str(<<"a">>)}
DetectMemberValues == {Null, Str(<<>>), Str(<<"a">>)}
DetectNotes ==
  {NoteCreate(BobFname, NoCustom), NoteCreate(BobFname, CustomNoSocial)} \cup
  {NoteCreate(BobFname, Custom(bag, Undef)) : bag \in [SocialKeySet -> DetectNoteValues]}
DetectMembers ==
  {[id |-> Str(<<"m1">>), attributes |-> [key \in SocialKeySet \cup {"name"} |->
       IF key = "name" THEN Null ELSE bag[key]]] : bag \in [SocialKeySet -> DetectMemberValues]}

InitDetect ==
  /\ config = [destName |-> Undef, overwriteAll |-> FALSE, orbitId |-> Undef]
  /\ fastMode = FALSE
  /\ store = <<>>
  /\ store0 = store
  /\ first = NoFirstRun
  /\ remote = <<>>
  /\ Idle
  /\ fnPc = "ready"
  /\ fnArg \in [note : DetectNotes, orbitMember : DetectMembers]
  /\ fnOut = <<>>

ApplyGetConflictedData ==
  /\ fnPc = "ready"
  /\ fnOut' = getConflictedData(fnArg.note, fnArg.orbitMember)
  /\ fnPc' = "done"
  /\ UNCHANGED <<config, fastMode, store0, remote, first, store, pc, fetchVars,
                 planVars, resolveVars, calls, result, err, fnArg>>

NextDetect == ApplyGetConflictedData

SpecDetect == InitDetect /\ [][NextDetect]_vars

\* ---------------------------------------------------------------- claims
\* the position of a key in the order github, discord, linkedin, twitter, email
KeyPos(key) ==
  CASE key = "github" -> 1 [] key = "discord" -> 2 [] key = "linkedin" -> 3
    [] key = "twitter" -> 4 [] key = "email" -> 5

\* C1: getConflictedData returns exactly the social keys whose existing value
\* is neither null nor undefined and differs from the incoming value, each
\* once, in the order github, discord, linkedin, twitter, email; a key whose
\* existing value is null or undefined is never returned.
C1_ConflictedDataExact ==
  fnPc = "done" =>
    LET existing == fnArg.note.custom.social
        incoming == fnArg.orbitMember.attributes
    IN /\ \A key \in {"github", "discord", "linkedin", "twitter", "email"} :
            (\E i \in 1..Len(fnOut) : fnOut[i] = key)
              <=> /\ existing[key].k \notin {"null", "undefined"}
                  /\ existing[key] # incoming[key]
       /\ \A i, j \in 1..Len(fnOut) : i < j => KeyPos(fnOut[i]) < KeyPos(fnOut[j])

\* a detection that returns two keys or more and leaves out an unset field
\* whose incoming value is set
C1_Witness ==
  /\ fnPc = "done"
  /\ Len(fnOut) >= 2
  /\ \E key \in SocialKeySet :
       /\ isNull(fnArg.note.custom.social[key])
       /\ Truthy(fnArg.orbitMember.attributes[key])

\* the resolver's events of the run: decision requests and overwrite writes
ResolverCalls == SelectSeq(calls, LAMBDA c : c.op = "handleConflict" \/ c.via = "overwrite")

\* the entry at (0-based) index i was resolved with OVERWRITE_LOCAL
Overwritten(i) == \E n \in 1..Len(calls) : calls[n].via = "overwrite" /\ calls[n].at = i

\* the run is past the planning of membersToNotes
Planned ==
  \/ pc \in {"updating", "bulk_wait", "onConflict", "decision_wait", "overwrite_wait", "done"}
  \/ pc = "failed" /\ err.type \notin {"DendronError", "AxiosError"}

\* C2: the resolver handles the queue entries in strictly increasing index
\* order from index 0, each at most once; after a SKIP_ALL at index k no
\* decision is requested and no write is issued for an index above k, and the
\* synthesized nodes above k keep their quarantine names.
C2_ResolverOrder ==
  LET res == ResolverCalls
  IN /\ \A a, b \in 1..Len(res) :
          a < b => /\ res[a].at <= res[b].at
                   /\ res[a].op = res[b].op => res[a].at < res[b].at
     /\ \A a \in 1..Len(res) :
          /\ res[a].at \in 0..(Len(conflicts) - 1)
          /\ \A i \in 0..res[a].at : \E b \in 1..a : res[b].at = i
     /\ \A n \in 1..Len(answers) :
          answers[n].resp = SKIP_ALL =>
            /\ \A a \in 1..Len(res) : res[a].at <= answers[n].at
            /\ \A i \in 1..Len(conflicts) :
                 i - 1 > answers[n].at =>
                   conflicts[i].conflictEntry.fname = DuplicateName(conflicts[i].noteName)

\* a finished run in which SKIP_ALL was decided before the last entry
C2_Witness ==
  /\ pc = "done"
  /\ \E n \in 1..Len(answers) :
       answers[n].resp = SKIP_ALL /\ answers[n].at < Len(conflicts) - 1

\* C3: the resolved nodes of the output hold the replacement node (original
\* name, incoming social values) for every entry resolved with
\* OVERWRITE_LOCAL and the original node for every other entry.
C3_ResolvedNodes ==
  pc = "done" =>
    /\ Len(result) = Len(create) + Len(conflicts)
    /\ \A i \in 1..Len(conflicts) :
         result[Len(create) + i] =
           IF Overwritten(i - 1) THEN conflicts[i].conflictEntry
           ELSE conflicts[i].conflictNote

\* a name of the quarantine hierarchy of the day of the run
QuarantinePrefix == <<"people", ".", "orbit", ".", "duplicate", ".">> \o Today \o <<".">>
IsQuarantineName(fname) ==
  /\ Len(fname) > Len(QuarantinePrefix)
  /\ SubSeq(fname, 1, Len(QuarantinePrefix)) = QuarantinePrefix

FoundFor(m) == LookupName(config, fastMode, cleanName(m)) \in DOMAIN store0
BucketOf(m) ==
  IF ~FoundFor(m) THEN "create"
  ELSE IF getConflictedData(store0[LookupName(config, fastMode, cleanName(m))], m) = <<>>
    THEN "update"
    ELSE "conflict"
RecordsOf(bucket) == SelectSeq(members, LAMBDA m : BucketOf(m) = bucket)

\* C5: the planner puts every record into exactly one bucket, in record
\* order: create iff no node is found under the looked-up name, update iff a
\* node is found and the detector returns no key, conflict iff a node is found
\* and the detector returns a key; the three sizes add up to the number of
\* records.
C5_ThreeBuckets ==
  Planned =>
    /\ Len(create) = Len(RecordsOf("create"))
    /\ \A k \in 1..Len(create) : create[k].custom.orbitId = RecordsOf("create")[k].id
    /\ Len(notesToUpdate) = Len(RecordsOf("update"))
    /\ \A k \in 1..Len(notesToUpdate) : notesToUpdate[k].member = RecordsOf("update")[k]
    /\ Len(conflicts) = Len(RecordsOf("conflict"))
    /\ \A k \in 1..Len(conflicts) :
         conflicts[k].conflictEntry.custom.orbitId = RecordsOf("conflict")[k].id
    /\ Len(create) + Len(notesToUpdate) + Len(conflicts) = Len(members)

\* a planned run of two records that went to two different buckets, one of
\* them the update list
C5_Witness ==
  /\ Planned
  /\ Len(members) = 2
  /\ Len(notesToUpdate) = 1
  /\ Len(create) + Len(conflicts) = 1

\* C6: for a non-conflicting existing node, after the update the stored node
\* holds the incoming value for every social field that was unset (null or
\* undefined) in the existing node and differs in the incoming record.
C6_AdoptsEveryUnsetField ==
  (pc = "bulk_wait" /\ Len(notesToUpdate) = 1) =>
    \A key \in SocialKeySet :
      LET old == notesToUpdate[1].note.custom.social[key]
          incoming == notesToUpdate[1].member.attributes[key]
      IN ((isNull(old) \/ isUndefined(old)) /\ incoming # old) =>
           store[notesToUpdate[1].ref].custom.social[key] = incoming

\* C7: with config.destName set, that name is used for looking up the
\* existing node and for naming a newly created node, for every record, with
\* and without fastMode.
C7_DestNameEverywhere ==
  (Planned /\ Truthy(config.destName)) =>
    /\ \A k \in 1..Len(create) : create[k].fname = config.destName.s
    /\ \A k \in 1..Len(notesToUpdate) : notesToUpdate[k].ref = config.destName.s
    /\ \A k \in 1..Len(conflicts) : conflicts[k].ref = config.destName.s
    /\ (config.destName.s \in DOMAIN store0) => create = <<>>
    /\ (config.destName.s \notin DOMAIN store0) => Len(create) = Len(members)

\* the records of the pages served, in page order
RECURSIVE PagesConcat(_, _)
PagesConcat(pages, i) ==
  IF i > Len(pages) THEN <<>> ELSE pages[i].data \o PagesConcat(pages, i + 1)

\* getAllMembers has returned
AllMembersReturned ==
  /\ isUndefined(config.orbitId)
  /\ pc \notin {"start", "loop", "page_wait"}
  /\ ~(pc = "failed" /\ err.type = "DendronError")

\* C8: getAllMembers requests the pages one at a time, the first with the
\* empty cursor and each later one with the next link of the previous
\* response; it stops exactly when a response's next link is null and returns
\* the records of all pages in page order, also when a page that has a next
\* link holds no record.
C8_FollowsNextLinks ==
  /\ inflight <= 1
  /\ isUndefined(config.orbitId) =>
       /\ Len(reqs) >= 1 => reqs[1] = Str(<<>>)
       /\ \A i \in 2..Len(reqs) : reqs[i] = served[i - 1].next
       /\ AllMembersReturned =>
            /\ Len(served) >= 1
            /\ isNull(served[Len(served)].next)
            /\ \A i \in 1..(Len(served) - 1) : ~isNull(served[i].next)
            /\ members = PagesConcat(served, 1)
            /\ Len(served) = Len(remote)

\* a fetch of this run failed
FetchFailed ==
  /\ pc = "failed"
  /\ IF isUndefined(config.orbitId) THEN Len(reqs) > Len(served) ELSE members = <<>>

\* C9: a failure of a fetch, paginated or single, reaches the caller of plant
\* as a DendronError of MINOR severity whose message is the stringified cause.
C9_FetchFailureClassified ==
  FetchFailed =>
    /\ err.type = "DendronError"
    /\ err.severity = "MINOR"
    /\ \E cause \in Causes : err.message = stringifyError(cause)

\* a page request of this run was left without a response
PageRequestFailed ==
  /\ isUndefined(config.orbitId)
  /\ Len(reqs) > Len(served)
  /\ pc # "page_wait"

\* C10: when a page fetch fails the run ends with that error: the request is
\* not retried, no further page is requested, no store call and no decision
\* request is made, and the document graph is unchanged.
C10_PageFailureAbortsRun ==
  PageRequestFailed =>
    /\ pc = "failed"
    /\ \E cause \in Causes : err = DendronErrorMinor(stringifyError(cause))
    /\ inflight = 0
    /\ Len(reqs) = Len(served) + 1
    /\ \A i, j \in 1..Len(reqs) : i # j => reqs[i] # reqs[j]
    /\ calls = <<>>
    /\ answers = <<>>
    /\ pending = <<>>
    /\ store = store0

\* a run that failed at its second page, records fetched, a vault not empty
C10_Witness ==
  /\ PageRequestFailed
  /\ pc = "failed"
  /\ Len(served) >= 1
  /\ Len(served) < Len(remote)
  /\ Len(members) >= 1
  /\ DOMAIN store # {}


\* the records of the run are looked up under pairwise distinct names
DistinctLookupNames ==
  \A i, j \in 1..Len(members) :
    i # j => LookupName(config, fastMode, cleanName(members[i]))
               # LookupName(config, fastMode, cleanName(members[j]))

\* every conflict of the first run was resolved with OVERWRITE_LOCAL
FirstRunOverwroteAll ==
  \A i \in 1..Len(first.conflicts) :
    \E n \in 1..Len(first.calls) :
      first.calls[n].via = "overwrite" /\ first.calls[n].at = i - 1

\* the planned run has an empty conflict queue and issued no update write
QuietRun ==
  /\ conflicts = <<>>
  /\ \A n \in 1..Len(calls) : calls[n].via # "update"

\* C11 as stated: the second of two runs over the same records has an empty
\* conflict queue and issues no update write, whatever the first run decided.
C11_SecondRunQuiet ==
  (first.done /\ Planned) => QuietRun

\* C11 amended: the second of two runs over the same records, the first one
\* having returned, has an empty conflict queue and issues no update write
\* when the records are looked up under pairwise distinct names and every
\* conflict of the first run was resolved with OVERWRITE_LOCAL.
C11_SecondRunQuietAfterOverwrites ==
  (first.done /\ Planned /\ DistinctLookupNames /\ FirstRunOverwroteAll) => QuietRun

\* a finished second run over two records, after a first run that overwrote
\* a conflict and wrote an update
C11_Witness ==
  /\ first.done
  /\ pc = "done"
  /\ Len(members) = 2
  /\ DistinctLookupNames
  /\ FirstRunOverwroteAll
  /\ Len(first.conflicts) >= 1
  /\ \E n \in 1..Len(first.calls) : first.calls[n].via = "update"

\* the update write of entry j of the update bucket was issued
UpdateIssued(j) == \E n \in 1..Len(calls) : calls[n].via = "update" /\ calls[n].at = j

\* the earlier entries of the update bucket that hold the same note object
EarlierOnSameObject(j) ==
  {k \in 1..(j - 1) : ~fastMode /\ notesToUpdate[k].ref = notesToUpdate[j].ref}

\* the note as updateNoteData found it for entry j: the looked-up note, or
\* what the last earlier update of the same object left
SeenBy(j) ==
  IF EarlierOnSameObject(j) = {} THEN notesToUpdate[j].note
  ELSE pending[CHOOSE k \in EarlierOnSameObject(j) :
                 \A l \in EarlierOnSameObject(j) : l <= k].note

SocialChanged(j) == SeenBy(j).custom.social # pending[j].note.custom.social

\* C12: for every entry of the update bucket whose update ran, a store write
\* was issued exactly when a social field of the note changed value in the
\* update; with no write the social fields are as they were.
C12_WriteIffFieldChanged ==
  \A j \in 1..Len(pending) :
    pending[j].status # "threw" =>
      /\ UpdateIssued(j) <=> SocialChanged(j)
      /\ UpdateIssued(j) <=> pending[j].status # "none"

\* one run with an update that adopted a field and wrote, and one that
\* changed nothing and did not write
C12_Witness ==
  /\ Len(pending) = 2
  /\ UpdateIssued(1) /\ SocialChanged(1)
  /\ ~UpdateIssued(2) /\ ~SocialChanged(2)
  /\ pending[2].status = "none"

\* every update write that was issued and has completed is what the store
\* holds under its name
UpdateWritesKept ==
  \A j \in 1..Len(pending) :
    pending[j].status = "done" => store[pending[j].note.fname] = pending[j].note

\* C13: no two entries of the update bucket refer to the same existing note,
\* and once the concurrent update writes have all completed the store holds
\* what each of them wrote, whatever the order of completion.
C13_UpdatesOnDistinctNodes ==
  /\ \A i, j \in 1..Len(notesToUpdate) :
       i # j => notesToUpdate[i].ref # notesToUpdate[j].ref
  /\ pc = "bulk_wait" => UpdateWritesKept

\* a conflict decision was requested or an overwrite was written
ResolverStarted == ResolverCalls # <<>>

\* C14: every update write of the run is issued in the one dispatch, before
\* any other store call and without waiting for another update write; all of
\* them have completed before the first conflict decision is requested or
\* the first overwrite is written; when an update fails the run has ended in
\* error and no decision is requested.
C14_UpdatesBeforeResolver ==
  /\ \A j \in 1..Len(pending) :
       UpdateIssued(j) <=> pending[j].status \in {"inflight", "done", "failed"}
  /\ \A n, m \in 1..Len(calls) :
       (n < m /\ calls[m].via = "update") => calls[n].via = "update"
  /\ ResolverStarted =>
       \A j \in 1..Len(pending) : pending[j].status \in {"none", "done"}
  /\ (\E j \in 1..Len(pending) : pending[j].status \in {"failed", "threw"}) =>
       pc = "failed" /\ ~ResolverStarted

\* a decision is requested after an update write completed
C14_Witness ==
  /\ pc = "decision_wait"
  /\ \E j \in 1..Len(pending) : pending[j].status = "done"

\* the store holds the note under its name
StoreHolds(note) == note.fname \in DOMAIN store /\ store[note.fname] = note

\* the run failed in the resolver, at queue index `index`
FailedInResolver == pc = "failed" /\ ResolverStarted

\* the overwrite of queue index k was written and completed before the failure
OverwriteCommitted(k) == k < index /\ Overwritten(k)

OverwriteTarget(k) == conflicts[k + 1].conflictEntry.fname

\* a commit to the name f later than the overwrite of index k
OverwrittenAfter(k, f) ==
  \E l \in (k + 1)..(Len(conflicts) - 1) : OverwriteCommitted(l) /\ OverwriteTarget(l) = f

\* when the run failed in the resolver, the store holds under each committed
\* name the last commit to that name
CommitsKept ==
  /\ \A k \in 0..(Len(conflicts) - 1) :
       OverwriteCommitted(k) =>
         \/ StoreHolds(conflicts[k + 1].conflictEntry)
         \/ OverwrittenAfter(k, OverwriteTarget(k))
  /\ \A p \in 1..Len(create) :
       \/ StoreHolds(create[p])
       \/ \E q \in (p + 1)..Len(create) : create[q].fname = create[p].fname
       \/ OverwrittenAfter(-1, create[p].fname)
  /\ \A j \in 1..Len(pending) :
       pending[j].status = "done" =>
         \/ StoreHolds(pending[j].note)
         \/ \E l \in 1..Len(pending) :
              l # j /\ pending[l].status = "done"
                    /\ pending[l].note.fname = pending[j].note.fname
         \/ OverwrittenAfter(-1, pending[j].note.fname)

\* a step that fails the run, or a step after the failure, issues no store
\* call; the failing step leaves the store as it is; every change of the
\* store is the completion of a write or batch create the run issued
NoUndoStep ==
  /\ pc' = "failed" => calls' = calls
  /\ (pc' = "failed" /\ pc # "failed") => store' = store
  /\ store' # store =>
       \/ pc = "bulk_wait" /\ store' = BulkAddNotes(store, create, 1)
       \/ \E n \in 1..Len(calls) :
            calls[n].op = "writeNote" /\ store' = WriteNote(store, calls[n].notes[1])

\* C15: when the run fails in the resolver at queue index i, the update
\* writes, the batch create and the overwrites of the indices below i that
\* were committed are what the store holds; a failing step changes nothing in
\* the store and no step issues a store call that undoes a commit.
C15_NoRollback == [](FailedInResolver => CommitsKept) /\ [][NoUndoStep]_vars

\* the resolver failed at index 1 after the overwrite of index 0 was committed
C15_Witness ==
  /\ FailedInResolver
  /\ index = 1
  /\ OverwriteCommitted(0)
  /\ StoreHolds(conflicts[1].conflictEntry)
  /\ store # store0

\* ----------------------------------------------------------- cleanName
\* the records cleanName is applied to
NameValues == {Undef, Null, Str(<<>>), Str(<<"bob">>), Str(<<"bob", " ", "s">>)}
HandleValues == {Null, Str(<<>>), Str(<<"h">>)}
EmailValues == {Undef, Null, Str(<<>>), BobEmail, Str(<<"@", "x">>),
                Str(<<"al", " ", "b", "@", "x", "@", "y">>), Str(<<"bob">>)}
IdValues == {Str(<<"m1">>), Str(<<"m", " ", "2">>)}
NameMembers ==
  {[id |-> id,
    attributes |-> [name |-> n, github |-> g, discord |-> d, twitter |-> t,
                    linkedin |-> Null, email |-> e]] :
     id \in IdValues, n \in NameValues, g \in {Null, Str(<<"gh">>)},
     d \in HandleValues, t \in {Null, Str(<<"tw">>)}, e \in EmailValues}

InitName ==
  /\ config = [destName |-> Undef, overwriteAll |-> FALSE, orbitId |-> Undef]
  /\ fastMode = FALSE
  /\ store = <<>>
  /\ store0 = store
  /\ first = NoFirstRun
  /\ remote = <<>>
  /\ Idle
  /\ fnPc = "ready"
  /\ fnArg \in NameMembers
  /\ fnOut = <<>>

\* one call of OrbitUtils.cleanName on the record; it may be called again
ApplyCleanName ==
  /\ fnPc \in {"ready", "done", "again"}
  /\ fnOut' = cleanName(fnArg)
  /\ fnPc' = IF fnPc = "ready" THEN "done" ELSE "again"
  /\ UNCHANGED <<config, fastMode, store0, remote, first, store, pc, fetchVars,
                 planVars, resolveVars, calls, result, err, fnArg>>

NextName == ApplyCleanName

SpecName == InitName /\ [][NextName]_vars

\* the part of an email before its first "@"; none when there is no email
LocalPart(email) ==
  IF email.k # "string" THEN Undef
  ELSE LET n == Len(email.s)
           Before(i) == \A j \in 1..(i - 1) : email.s[j] # "@"
           cut == CHOOSE i \in 1..(n + 1) : Before(i) /\ (i = n + 1 \/ email.s[i] = "@")
       IN Str([i \in 1..(cut - 1) |-> email.s[i]])

NonEmpty(v) == v.k = "string" /\ v.s # <<>>

\* name, github, discord, twitter, email local-part, id
NameCandidates(member) ==
  <<member.attributes.name, member.attributes.github, member.attributes.discord,
    member.attributes.twitter, LocalPart(member.attributes.email), member.id>>

FirstNonEmpty(cands) ==
  cands[CHOOSE i \in 1..Len(cands) :
          NonEmpty(cands[i]) /\ \A j \in 1..(i - 1) : ~NonEmpty(cands[j])]

EmailOnly(member) ==
  /\ \A i \in 1..4 : ~NonEmpty(NameCandidates(member)[i])
  /\ NonEmpty(LocalPart(member.attributes.email))

NoneSet(member) == \A i \in 1..5 : ~NonEmpty(NameCandidates(member)[i])

\* C16: every call of cleanName on a record returns the sanitized form of
\* the first non-empty of name, github, discord, twitter, email local-part
\* and id; a record with only an email gives the email's local-part and a
\* record with none of them gives its id.
C16_CleanNameFallbackChain ==
  fnPc \in {"done", "again"} =>
    /\ fnOut = cleanFname(FirstNonEmpty(NameCandidates(fnArg)).s)
    /\ EmailOnly(fnArg) => fnOut = cleanFname(LocalPart(fnArg.attributes.email).s)
    /\ NoneSet(fnArg) => fnOut = cleanFname(fnArg.id.s)

\* cleanName was called twice on a record with only an email, whose
\* local-part needs sanitizing
C16_Witness ==
  /\ fnPc = "again"
  /\ EmailOnly(fnArg)
  /\ fnOut = <<"al", "-", "b">>

\* the overwrite writes of the run, in the order they were issued
OverwriteCalls == SelectSeq(calls, LAMBDA c : c.via = "overwrite")

\* C17: with overwriteAll set handleConflict is never called; the overwrite
\* writes are issued in queue order, one per entry, each of the entry's
\* synthesized note under the name the conflicted note was looked up by; a
\* run that returned has written every entry of the queue once.
C17_OverwriteAllWritesEach ==
  config.overwriteAll =>
    /\ \A n \in 1..Len(calls) : calls[n].op # "handleConflict"
    /\ answers = <<>>
    /\ Len(OverwriteCalls) <= Len(conflicts)
    /\ \A n \in 1..Len(OverwriteCalls) :
         /\ OverwriteCalls[n].at = n - 1
         /\ OverwriteCalls[n].op = "writeNote"
         /\ OverwriteCalls[n].notes = <<conflicts[n].conflictEntry>>
         /\ conflicts[n].conflictEntry.fname = conflicts[n].conflictNote.fname
         /\ conflicts[n].conflictEntry.fname
              = LookupName(config, fastMode, conflicts[n].noteName)
    /\ pc = "done" => Len(OverwriteCalls) = Len(conflicts)

\* a run with overwriteAll returned after a queue of two entries
C17_Witness ==
  /\ config.overwriteAll
  /\ pc = "done"
  /\ Len(conflicts) = 2
  /\ Len(OverwriteCalls) = 2

\* the decisions that skip one entry: SKIP, an unrecognized value, no value
SkipsOne(resp) == resp \notin {OVERWRITE_LOCAL, SKIP_ALL}

\* the step in which handleConflict returned resp for the entry at index
DecisionStep(resp) ==
  /\ pc = "decision_wait"
  /\ answers' = Append(answers, [at |-> index, resp |-> resp])

\* C18: the step in which a SKIP, an unrecognized decision or no decision is
\* returned for the entry at index i issues no store call, leaves the store,
\* the existing note and the entry's synthesized note as they are, and moves
\* the resolver to index i + 1, or ends it when i is the last index.
C18_SkipLeavesEntry ==
  [][\A resp \in Decisions :
       (DecisionStep(resp) /\ SkipsOne(resp)) =>
         /\ calls' = calls
         /\ store' = store
         /\ conflicts' = conflicts
         /\ conflictResolvedNotes' = conflictResolvedNotes
         /\ IF index < Len(conflicts) - 1
              THEN index' = index + 1 /\ pc' = "onConflict"
              ELSE pc' = "done"]_vars

\* the entry at index 0 got no decision and the resolver is at index 1 with
\* the store as the run found it
C18_Witness ==
  /\ pc = "onConflict"
  /\ index = 1
  /\ answers = <<[at |-> 0, resp |-> "undefined"]>>
  /\ OverwriteCalls = <<>>
  /\ store = store0

\* the decision requests of the run, in the order they were issued
DecisionCalls == SelectSeq(calls, LAMBDA c : c.op = "handleConflict")

\* decision requests that were issued and have not returned
DecisionsOutstanding == Len(DecisionCalls) - Len(answers)

\* the n-th overwrite write has completed: the store holds its note, or
\* the note of a later overwrite of the same name
OverwriteLanded(n) ==
  \E m \in n..Len(OverwriteCalls) :
    /\ OverwriteCalls[m].notes[1].fname = OverwriteCalls[n].notes[1].fname
    /\ StoreHolds(OverwriteCalls[m].notes[1])

\* C19: at most one decision request is outstanding; requests go up the
\* queue, the one for an entry is issued only after every earlier request
\* returned and every earlier overwrite write completed; while an overwrite
\* write is in flight it is the only one and no decision is outstanding.
C19_ResolverSequential ==
  /\ DecisionsOutstanding \in {0, 1}
  /\ DecisionsOutstanding = 1 => pc \in {"decision_wait", "failed"}
  /\ \A n, m \in 1..Len(DecisionCalls) :
       n < m => DecisionCalls[n].at < DecisionCalls[m].at
  /\ \A n, m \in 1..Len(OverwriteCalls) :
       n < m => OverwriteCalls[n].at < OverwriteCalls[m].at
  /\ pc \in {"onConflict", "decision_wait"} =>
       /\ \A n \in 1..Len(answers) : answers[n].at < index
       /\ \A n \in 1..Len(OverwriteCalls) :
            OverwriteCalls[n].at < index /\ OverwriteLanded(n)
  /\ pc = "overwrite_wait" =>
       /\ DecisionsOutstanding = 0
       /\ OverwriteCalls # <<>>
       /\ \A n \in 1..Len(OverwriteCalls) :
            IF n = Len(OverwriteCalls)
              THEN OverwriteCalls[n].at = index
              ELSE OverwriteCalls[n].at < index /\ OverwriteLanded(n)

\* the decision for index 1 is requested after the decision for index 0 was
\* OVERWRITE_LOCAL and its write completed
C19_Witness ==
  /\ pc = "decision_wait"
  /\ index = 1
  /\ answers = <<[at |-> 0, resp |-> OVERWRITE_LOCAL]>>
  /\ Len(OverwriteCalls) = 1
  /\ OverwriteLanded(1)
  /\ DecisionsOutstanding = 1

ResolverRunning == pc \in {"onConflict", "decision_wait", "overwrite_wait"}

SkipAllDecided == \E n \in 1..Len(answers) : answers[n].resp = SKIP_ALL

\* the resolver runs only while the index is within the queue and no
\* SKIP_ALL was decided; a run that returned after a non-empty queue is past
\* the last entry or had a SKIP_ALL as its last decision; no entry has two
\* decision requests
ResolverEndsExactly ==
  /\ ResolverRunning => index < Len(conflicts) /\ ~SkipAllDecided
  /\ (pc = "done" /\ conflicts # <<>>) =>
       \/ index = Len(conflicts) - 1
       \/ index = Len(conflicts) /\ answers[Len(answers)].resp = SKIP_ALL
  /\ Len(DecisionCalls) <= Len(conflicts)
  /\ \A n, m \in 1..Len(DecisionCalls) :
       DecisionCalls[n].at = DecisionCalls[m].at => n = m

\* C20: when every decision request is answered and every overwrite write
\* completes, a resolver that was started on a non-empty queue comes to an
\* end; it ends exactly when the index is past the last entry or a SKIP_ALL
\* was decided, with at most one decision request per entry.
C20_ResolverTerminates ==
  /\ []ResolverEndsExactly
  /\ ResolverRunning ~> (pc \in {"done", "failed"})

\* the resolver ended at the first of two entries on a SKIP_ALL
C20_Witness ==
  /\ pc = "done"
  /\ Len(conflicts) = 2
  /\ answers = <<[at |-> 0, resp |-> SKIP_ALL]>>
  /\ index = 2

\* the batch create calls of the run
BulkCalls == SelectSeq(calls, LAMBDA c : c.op = "bulkAddNotes")

\* membersToNotes has returned: the plan is made and every update settled
PastPlanning ==
  /\ Planned
  /\ pc # "updating"
  /\ \A j \in 1..Len(pending) : pending[j].status \in {"none", "done"}

\* C21: a run that is past planning has called bulkAddNotes exactly once,
\* with the notes of the create bucket, one per record that found no note,
\* in record order, also when there is none; a run that is not past planning
\* has not called it; no writeNote call writes a note of the create bucket.
C21_OneBatchCreate ==
  /\ PastPlanning =>
       /\ Len(BulkCalls) = 1
       /\ BulkCalls[1].notes = create
       /\ Len(create) = Len(RecordsOf("create"))
       /\ \A k \in 1..Len(create) :
            /\ create[k].fname = PeopleName(cleanName(RecordsOf("create")[k]))
            /\ create[k].custom.orbitId = RecordsOf("create")[k].id
            /\ create[k].custom.social = getSocialAttributes(RecordsOf("create")[k])
  /\ ~PastPlanning => BulkCalls = <<>>
  /\ \A n \in 1..Len(calls) :
       calls[n].op = "writeNote" =>
         \A k \in 1..Len(create) :
           /\ calls[n].notes[1] # create[k]
           /\ calls[n].notes[1].fname # create[k].fname

\* a run returned after one batch create of two notes, in record order
C21_Witness ==
  /\ pc = "done"
  /\ Len(create) = 2
  /\ create[1].custom.orbitId # create[2].custom.orbitId
  /\ BulkCalls = <<Call("bulkAddNotes", "create", 0, create)>>
  /\ StoreHolds(create[2])

\* the note the record at position i of the listing was looked up as, in
\* the graph as the run found it
LookedUpRef(i) == LookupName(config, fastMode, cleanName(members[i]))

\* record i found a note without custom metadata or without a social bag
FoundWithoutSocial(i) ==
  /\ LookedUpRef(i) \in DOMAIN store0
  /\ \/ ~store0[LookedUpRef(i)].custom.has
     \/ ~store0[LookedUpRef(i)].custom.hasSocial

\* entry j of the update bucket got an empty social bag, no write, no error
UpdatedToEmptyBag(j) ==
  /\ pending[j].status = "none"
  /\ ~UpdateIssued(j)
  /\ pending[j].note.custom.hasSocial
  /\ pending[j].note.custom.social = NoSocialBag

\* C22: a record whose existing note has no custom metadata, or custom
\* metadata without a social bag, is not queued as a conflict; it is in the
\* update bucket, its update leaves the note with an empty social bag and
\* issues no write, and the run has not failed in the updates.
C22_NoSocialBagIsHarmless ==
  Planned =>
    \A i \in 1..Len(members) :
      FoundWithoutSocial(i) =>
        /\ \A k \in 1..Len(conflicts) : conflicts[k].ref # LookedUpRef(i)
        /\ \E j \in 1..Len(notesToUpdate) :
             /\ notesToUpdate[j].member = members[i]
             /\ notesToUpdate[j].ref = LookedUpRef(i)
             /\ UpdatedToEmptyBag(j)
        /\ \A j \in 1..Len(pending) : pending[j].status # "threw"
        /\ ~(pc = "failed" /\ err.type = "TypeError")

====
